---- MODULE Spec2Model ----
(***************************************************************************)
(* Model of the two containers of Qt-Utils:                                *)
(*   QCircularBuffer<T>   (src/list/QCircularBuffer.hpp), the RingBuffer   *)
(*   QLinkedHash<Key, T>  (src/list/QLinkedHash.hpp), the OrderedMap       *)
(*                                                                         *)
(* T is modelled by the integers 0..MaxVal, where 0 is the default         *)
(* constructed T().  A QVector / QList is a sequence; the C++ index i is   *)
(* the TLA+ index i + 1.  Every method is an operator from the object      *)
(* ("this", a record of its members) and its arguments to a record         *)
(*   [this |-> members afterwards, err |-> outcome, ret |-> returned]      *)
(* where err is one of                                                     *)
(*   "none"          the call returned normally                            *)
(*   "out_of_range"  the call threw std::out_of_range                      *)
(*   "fault"         the call ended the process (integer division by zero, *)
(*                   a failed Q_ASSERT, an access outside a container)     *)
(* and ret is the sequence of returned values (empty for void).            *)
(***************************************************************************)
EXTENDS Integers, Sequences, FiniteSets, TLC

\* ---------------------------------------------------------------- bounds
MaxCap == 3

MaxVal == 1

\* size_t arithmetic is done modulo SizeMod (a reduced width: every value
\* of the model is far below it, and only a wrap-around reaches it).
SizeMod == 65536

Values == 0 .. MaxVal

Caps == 0 .. MaxCap

\* size_t arguments tried for an index or an element count
Indices == 0 .. MaxCap

Keys == {"x", "y", "z"}

\* the largest position tried: one past the largest size of the map
MaxPos == Cardinality(Keys) + 1

\* int arguments tried for a position of the ordered map
Positions == (0 - 1) .. MaxPos

MaxPush == MaxCap + 2

VARIABLES
    m_buffer,           \* QCircularBuffer::m_buffer
    m_start,            \* QCircularBuffer::m_start
    m_size,             \* QCircularBuffer::m_size
    m_hash,             \* QLinkedHash::m_hash
    m_list,             \* QLinkedHash::m_list
    call,               \* the last call: [op, idx, key, val]
    err,                \* its outcome
    ret,                \* what it returned
    old,                \* the members of the called object before the call
    abs,                \* history: the abstract bounded sequence
    hist,               \* history: the values pushed since construction
    alone,              \* history: pushBack alone, applied to a full buffer
    fresh,              \* history: a new buffer given the calls made since clear
    it,                 \* the cursor in use, if any: <<>> or <<Iterator>>
    walk                \* history: advances since begin() without a mutation

vars == <<m_buffer, m_start, m_size, m_hash, m_list,
          call, err, ret, old, abs, hist, alone, fresh, it, walk>>

Min(a, b) == IF a <= b THEN a ELSE b

\* conversion of an integer to size_t
ToSizeT(n) == n % SizeMod

\* -1 converted to size_t: the defaulted argument "size_t n = -1", and what
\* a negative index passed for a size_t becomes
DefaultN == ToSizeT(0 - 1)

Result(this, e, r) == [this |-> this, err |-> e, ret |-> r]

Call(op, idx, key, val) == [op |-> op, idx |-> idx, key |-> key, val |-> val]

None == [set |-> FALSE]

\* the value of walk when no walk from begin() is in progress
NoWalk == 0 - 1

\* ------------------------------------------------------- QCircularBuffer
CB_this == [m_buffer |-> m_buffer, m_start |-> m_start, m_size |-> m_size]

CB_ctor(capacity) ==
    [m_buffer |-> [i \in 1 .. capacity |-> 0], m_start |-> 0, m_size |-> 0]

CB_size(this) == this.m_size

CB_isEmpty(this) == this.m_size = 0

CB_isFull(this) == this.m_size = Len(this.m_buffer)

\* operator[] (both overloads take the same path to the slot)
CB_operator_index_off_by_one(this, idx) ==
    IF idx > this.m_size
    THEN Result(this, "out_of_range", <<>>)
    ELSE IF Len(this.m_buffer) = 0
         THEN Result(this, "fault", <<>>)
         ELSE Result(this, "none",
                <<this.m_buffer[((this.m_start + idx) % Len(this.m_buffer)) + 1]>>)

CB_operator_index(this, idx) ==
    IF idx >= this.m_size
    THEN Result(this, "out_of_range", <<>>)
    ELSE IF Len(this.m_buffer) = 0
         THEN Result(this, "fault", <<>>)
         ELSE Result(this, "none",
                <<this.m_buffer[((this.m_start + idx) % Len(this.m_buffer)) + 1]>>)

\* cb[idx] = val through the non-const operator[]
CB_set(this, idx, val) ==
    LET r == CB_operator_index(this, idx)
    IN  IF r.err # "none"
        THEN Result(this, r.err, <<>>)
        ELSE Result([this EXCEPT
                       !.m_buffer[((this.m_start + idx) % Len(this.m_buffer)) + 1] = val],
                    "none", <<>>)

CB_clear_keep_start(this) ==
    Result([this EXCEPT !.m_size = 0], "none", <<>>)

CB_clear(this) ==
    Result([this EXCEPT !.m_size = 0, !.m_start = 0], "none", <<>>)

CB_remove_front_no_guard(this) ==
    IF Len(this.m_buffer) = 0
    THEN Result(this, "fault", <<>>)
    ELSE Result([this EXCEPT
                   !.m_start = (this.m_start + 1) % Len(this.m_buffer),
                   !.m_size = ToSizeT(this.m_size - 1)],
                "none", <<>>)

CB_remove_front_keep_start(this) ==
    IF CB_isEmpty(this)
    THEN Result(this, "none", <<>>)
    ELSE Result([this EXCEPT !.m_size = ToSizeT(this.m_size - 1)], "none", <<>>)

CB_remove_front_keep_size(this) ==
    IF CB_isEmpty(this)
    THEN Result(this, "none", <<>>)
    ELSE IF Len(this.m_buffer) = 0
         THEN Result(this, "fault", <<>>)
         ELSE Result([this EXCEPT
                        !.m_start = (this.m_start + 1) % Len(this.m_buffer)],
                     "none", <<>>)

CB_remove_front(this) ==
    IF CB_isEmpty(this)
    THEN Result(this, "none", <<>>)
    ELSE IF Len(this.m_buffer) = 0
         THEN Result(this, "fault", <<>>)
         ELSE Result([this EXCEPT
                        !.m_start = (this.m_start + 1) % Len(this.m_buffer),
                        !.m_size = ToSizeT(this.m_size - 1)],
                     "none", <<>>)

CB_push_back_keep_start(this, val) ==
    IF Len(this.m_buffer) = 0
    THEN Result(this, "none", <<>>)
    ELSE IF this.m_size < Len(this.m_buffer)
         THEN Result([this EXCEPT
                        !.m_buffer[((this.m_start + this.m_size)
                                       % Len(this.m_buffer)) + 1] = val,
                        !.m_size = ToSizeT(this.m_size + 1)],
                     "none", <<>>)
         ELSE Result([this EXCEPT !.m_buffer[this.m_start + 1] = val],
                     "none", <<>>)

CB_push_back_no_guard(this, val) ==
    IF this.m_size < Len(this.m_buffer)
    THEN Result([this EXCEPT
                   !.m_buffer[((this.m_start + this.m_size)
                                  % Len(this.m_buffer)) + 1] = val,
                   !.m_size = ToSizeT(this.m_size + 1)],
                "none", <<>>)
    ELSE IF this.m_start >= Len(this.m_buffer)
         THEN Result(this, "fault", <<>>)
         ELSE Result([this EXCEPT
                        !.m_buffer[this.m_start + 1] = val,
                        !.m_start = (this.m_start + 1) % Len(this.m_buffer)],
                     "none", <<>>)

CB_push_back(this, val) ==
    IF Len(this.m_buffer) = 0
    THEN Result(this, "none", <<>>)
    ELSE IF this.m_size < Len(this.m_buffer)
         THEN Result([this EXCEPT
                        !.m_buffer[((this.m_start + this.m_size)
                                       % Len(this.m_buffer)) + 1] = val,
                        !.m_size = ToSizeT(this.m_size + 1)],
                     "none", <<>>)
         ELSE Result([this EXCEPT
                        !.m_buffer[this.m_start + 1] = val,
                        !.m_start = (this.m_start + 1) % Len(this.m_buffer)],
                     "none", <<>>)

\* the loop "for (_i = from; _i < to; ++_i) _res.append((*this)[_i])"
CB_collect(this, from, to) ==
    LET cnt   == IF to > from THEN to - from ELSE 0
        reads == [j \in 1 .. cnt |-> CB_operator_index(this, from + j - 1)]
    IN  IF \E j \in 1 .. cnt : reads[j].err # "none"
        THEN LET first == CHOOSE j \in 1 .. cnt :
                             /\ reads[j].err # "none"
                             /\ \A h \in 1 .. (j - 1) : reads[h].err = "none"
             IN  Result(this, reads[first].err, <<>>)
        ELSE Result(this, "none", [j \in 1 .. cnt |-> reads[j].ret[1]])

CB_front(this, n) ==
    LET nn == IF n <= 0 THEN this.m_size ELSE Min(n, this.m_size)
    IN  CB_collect(this, 0, nn)

CB_back_from_zero(this, n) ==
    LET nn == IF n <= 0 THEN this.m_size ELSE Min(n, this.m_size)
    IN  CB_collect(this, 0, nn)

CB_back(this, n) ==
    LET nn == IF n <= 0 THEN this.m_size ELSE Min(n, this.m_size)
    IN  CB_collect(this, ToSizeT(this.m_size - nn), this.m_size)

\* the logical contents get(0), ..., get(size() - 1) of a buffer
CB_contents(this) == CB_collect(this, 0, this.m_size).ret


\* ------------------------------------------------------ QList and QHash
\* What the calls made on m_list and m_hash do.  A call outside the
\* documented range of a QList has one outcome per Qt the program can be
\* built against: Qt 5 clamps or ignores the index, Qt 6 ends the process
\* (Q_ASSERT, or a copy outside the array).  Such a call yields the set of
\* those outcomes, [list |-> the list afterwards, err |-> "none" or "fault"].
QList_indexOf(list, key) ==
    IF \E i \in 1 .. Len(list) : list[i] = key
    THEN (CHOOSE i \in 1 .. Len(list) :
             /\ list[i] = key
             /\ \A j \in 1 .. (i - 1) : list[j] # key) - 1
    ELSE 0 - 1

QList_removeAt(list, i) ==
    IF 0 <= i /\ i < Len(list)
    THEN {[list |-> SubSeq(list, 1, i) \o SubSeq(list, i + 2, Len(list)),
           err |-> "none"]}
    ELSE {[list |-> list, err |-> "none"], [list |-> list, err |-> "fault"]}

QList_removeOne(list, key) ==
    IF QList_indexOf(list, key) >= 0
    THEN LET i == QList_indexOf(list, key)
         IN  SubSeq(list, 1, i) \o SubSeq(list, i + 2, Len(list))
    ELSE list

QList_insert(list, i, key) ==
    IF 0 <= i /\ i <= Len(list)
    THEN {[list |-> SubSeq(list, 1, i) \o <<key>> \o SubSeq(list, i + 1, Len(list)),
           err |-> "none"]}
    ELSE {[list |-> IF i < 0 THEN <<key>> \o list ELSE Append(list, key),
           err |-> "none"],
          [list |-> list, err |-> "fault"]}

QHash_empty == [k \in {} |-> 0]

QHash_contains(hash, key) == key \in DOMAIN hash

\* the const operator[]: the value of the key, or T()
QHash_value(hash, key) == IF key \in DOMAIN hash THEN hash[key] ELSE 0

QHash_remove(hash, key) == [k \in (DOMAIN hash) \ {key} |-> hash[k]]

\* hash[key] = val through the non-const operator[]
QHash_assign(hash, key, val) ==
    [k \in (DOMAIN hash) \cup {key} |-> IF k = key THEN val ELSE hash[k]]

\* ----------------------------------------------------------- QLinkedHash
\* Every method yields the set of its outcomes, one per build.
LH_this == [m_hash |-> m_hash, m_list |-> m_list]

LH_ctor == [m_hash |-> QHash_empty, m_list |-> <<>>]

LH_size(this) == Len(this.m_list)

\* operator[](int idx)
LH_operator_index(this, idx) ==
    IF idx < Len(this.m_list) /\ idx >= 0
    THEN {Result(this, "none", <<QHash_value(this.m_hash, this.m_list[idx + 1])>>)}
    ELSE {Result(this, "none", <<0>>)}

LH_operator_key_vivify(this, key) ==
    {Result([this EXCEPT
               !.m_hash = QHash_assign(this.m_hash, key, QHash_value(this.m_hash, key))],
            "none", <<QHash_value(this.m_hash, key)>>)}

\* operator[](const Key& key)
LH_operator_key(this, key) ==
    IF QHash_contains(this.m_hash, key)
    THEN {Result(this, "none", <<QHash_value(this.m_hash, key)>>)}
    ELSE {Result(this, "none", <<0>>)}

LH_indexOf(this, key) ==
    {Result(this, "none", <<QList_indexOf(this.m_list, key)>>)}

LH_insert_no_remove(this, idx, key, val) ==
    IF idx <= Len(this.m_list) /\ idx >= 0
    THEN { IF o.err = "none"
           THEN Result([m_hash |-> QHash_assign(this.m_hash, key, val),
                        m_list |-> o.list], "none", <<>>)
           ELSE Result([this EXCEPT !.m_list = this.m_list], "fault", <<>>)
           : o \in QList_insert(this.m_list, idx, key) }
    ELSE {Result(this, "none", <<>>)}

LH_insert_no_upper(this, idx, key, val) ==
    IF idx >= 0
    THEN LET removed == IF QHash_contains(this.m_hash, key)
                        THEN QList_removeOne(this.m_list, key)
                        ELSE this.m_list
         IN  { IF o.err = "none"
               THEN Result([m_hash |-> QHash_assign(this.m_hash, key, val),
                            m_list |-> o.list], "none", <<>>)
               ELSE Result([this EXCEPT !.m_list = removed], "fault", <<>>)
               : o \in QList_insert(removed, idx, key) }
    ELSE {Result(this, "none", <<>>)}

LH_insert_keep_value(this, idx, key, val) ==
    IF idx <= Len(this.m_list) /\ idx >= 0
    THEN LET removed == IF QHash_contains(this.m_hash, key)
                        THEN QList_removeOne(this.m_list, key)
                        ELSE this.m_list
         IN  { IF o.err = "none"
               THEN Result([m_hash |-> IF QHash_contains(this.m_hash, key)
                                       THEN this.m_hash
                                       ELSE QHash_assign(this.m_hash, key, val),
                            m_list |-> o.list], "none", <<>>)
               ELSE Result([this EXCEPT !.m_list = removed], "fault", <<>>)
               : o \in QList_insert(removed, idx, key) }
    ELSE {Result(this, "none", <<>>)}

LH_insert(this, idx, key, val) ==
    IF idx <= Len(this.m_list) /\ idx >= 0
    THEN LET removed == IF QHash_contains(this.m_hash, key)
                        THEN QList_removeOne(this.m_list, key)
                        ELSE this.m_list
         IN  { IF o.err = "none"
               THEN Result([m_hash |-> QHash_assign(this.m_hash, key, val),
                            m_list |-> o.list], "none", <<>>)
               ELSE Result([this EXCEPT !.m_list = removed], "fault", <<>>)
               : o \in QList_insert(removed, idx, key) }
    ELSE {Result(this, "none", <<>>)}

LH_append_before_last(this, key, val) ==
    LH_insert(this, LH_size(this) - 1, key, val)

LH_append(this, key, val) == LH_insert(this, LH_size(this), key, val)

LH_remove_hash_only(this, key) ==
    IF QHash_contains(this.m_hash, key)
    THEN {Result([this EXCEPT !.m_hash = QHash_remove(this.m_hash, key)],
                 "none", <<>>)}
    ELSE {Result(this, "none", <<>>)}

LH_remove(this, key) ==
    IF QHash_contains(this.m_hash, key)
    THEN {Result([m_hash |-> QHash_remove(this.m_hash, key),
                  m_list |-> QList_removeOne(this.m_list, key)], "none", <<>>)}
    ELSE {Result(this, "none", <<>>)}

LH_removeAt_or_guard(this, idx) ==
    IF idx < Len(this.m_list) \/ idx >= 0
    THEN IF idx < Len(this.m_list) /\ idx >= 0
         THEN {Result([m_hash |-> QHash_remove(this.m_hash, this.m_list[idx + 1]),
                       m_list |-> SubSeq(this.m_list, 1, idx)
                                    \o SubSeq(this.m_list, idx + 2, Len(this.m_list))],
                      "none", <<>>)}
         ELSE {Result(this, "fault", <<>>)}
    ELSE {Result(this, "none", <<>>)}

LH_removeAt_list_first(this, idx) ==
    IF idx < Len(this.m_list) /\ idx >= 0
    THEN LET shorter == SubSeq(this.m_list, 1, idx)
                          \o SubSeq(this.m_list, idx + 2, Len(this.m_list))
         IN  IF idx < Len(shorter)
             THEN {Result([m_hash |-> QHash_remove(this.m_hash, shorter[idx + 1]),
                           m_list |-> shorter], "none", <<>>)}
             ELSE {Result([this EXCEPT !.m_list = shorter], "fault", <<>>)}
    ELSE {Result(this, "none", <<>>)}

LH_removeAt_hash_only(this, idx) ==
    IF idx < Len(this.m_list) /\ idx >= 0
    THEN {Result([this EXCEPT
                    !.m_hash = QHash_remove(this.m_hash, this.m_list[idx + 1])],
                 "none", <<>>)}
    ELSE {Result(this, "none", <<>>)}

LH_removeAt(this, idx) ==
    IF idx < Len(this.m_list) /\ idx >= 0
    THEN { IF o.err = "none"
           THEN Result([m_hash |-> QHash_remove(this.m_hash, this.m_list[idx + 1]),
                        m_list |-> o.list], "none", <<>>)
           ELSE Result([this EXCEPT
                          !.m_hash = QHash_remove(this.m_hash, this.m_list[idx + 1])],
                       "fault", <<>>)
           : o \in QList_removeAt(this.m_list, idx) }
    ELSE {Result(this, "none", <<>>)}

\* the one value a call returns (the calls below have one outcome)
Ret(outcomes) == (CHOOSE r \in outcomes : TRUE).ret[1]

\* hash[key] as a reference, through the non-const operator[]: a key that
\* is absent is first inserted with the value T()
QHash_ref(hash, key) ==
    IF key \in DOMAIN hash THEN hash ELSE QHash_assign(hash, key, 0)

\* -------------------------------------------------- QLinkedHash::Iterator
\* m_container is the address of the container: "this" for the map of the
\* model, "other" for another one.
IT_ctor(container, index) == [m_container |-> container, m_index |-> index]

\* operator*: m_list[m_index] outside the list is undefined; it ends the
\* process or reads some key, which the hash lookup then inserts
IT_deref(this, iter) ==
    IF 0 <= iter.m_index /\ iter.m_index < Len(this.m_list)
    THEN LET key == this.m_list[iter.m_index + 1]
         IN  {Result([this EXCEPT !.m_hash = QHash_ref(this.m_hash, key)],
                     "none", <<QHash_ref(this.m_hash, key)[key]>>)}
    ELSE {Result(this, "fault", <<>>)}
         \cup {Result([this EXCEPT !.m_hash = QHash_ref(this.m_hash, key)],
                      "none", <<QHash_ref(this.m_hash, key)[key]>>) : key \in Keys}

\* operator++()
IT_pre_inc(iter) == [iter EXCEPT !.m_index = iter.m_index + 1]

\* operator++(int): the cursor afterwards and the copy returned
IT_post_inc(iter) == [iter |-> IT_pre_inc(iter), temp |-> iter]

\* operator==
IT_eq(a, b) == a.m_container = b.m_container /\ a.m_index = b.m_index

\* operator!=
IT_ne(a, b) == ~ IT_eq(a, b)

LH_begin(container, this) == IT_ctor(container, 0)

LH_end_before_last(container, this) == IT_ctor(container, Len(this.m_list) - 1)

LH_end(container, this) == IT_ctor(container, Len(this.m_list))

\* ------------------------------------------------------------ histories
\* The abstract bounded sequence of capacity c: pushBack appends, dropping
\* the head first when the length is already c; removeFront drops the head
\* if any; set replaces element i only.
AbsPushBack(a, c, v) ==
    IF c = 0 THEN a
    ELSE IF Len(a) = c THEN Append(Tail(a), v) ELSE Append(a, v)

AbsRemoveFront(a) == IF a = <<>> THEN a ELSE Tail(a)

AbsSet(a, i, v) == IF i < Len(a) THEN [a EXCEPT ![i + 1] = v] ELSE a

\* the last c elements of a sequence h
LastOf(h, c) == SubSeq(h, Len(h) - Min(c, Len(h)) + 1, Len(h))

\* ------------------------------------------------------------- actions
\* the process is running: no earlier call ended it
Alive == err # "fault"

\* a call on the ring buffer with outcome r
CB_do(c, r) ==
    /\ Alive
    /\ m_buffer' = r.this.m_buffer
    /\ m_start' = r.this.m_start
    /\ m_size' = r.this.m_size
    /\ call' = c
    /\ err' = r.err
    /\ ret' = r.ret
    /\ old' = CB_this
    /\ UNCHANGED <<m_hash, m_list, it, walk>>

PushBack(val) ==
    /\ CB_do(Call("push_back", 0, "", val), CB_push_back(CB_this, val))
    /\ abs' = AbsPushBack(abs, Len(m_buffer), val)
    /\ alone' = IF call.op = "remove_front" /\ CB_isFull(old)
                THEN [set |-> TRUE, this |-> CB_push_back(old, val).this]
                ELSE None
    /\ fresh' = IF fresh.set
                THEN [set |-> TRUE, this |-> CB_push_back(fresh.this, val).this]
                ELSE None
    /\ UNCHANGED hist

RemoveFront ==
    /\ CB_do(Call("remove_front", 0, "", 0), CB_remove_front(CB_this))
    /\ abs' = AbsRemoveFront(abs)
    /\ alone' = None
    /\ fresh' = IF fresh.set
                THEN [set |-> TRUE, this |-> CB_remove_front(fresh.this).this]
                ELSE None
    /\ UNCHANGED hist

Clear ==
    /\ CB_do(Call("clear", 0, "", 0), CB_clear(CB_this))
    /\ abs' = <<>>
    /\ alone' = None
    /\ fresh' = [set |-> TRUE, this |-> CB_ctor(Len(m_buffer))]
    /\ UNCHANGED hist

Set(idx, val) ==
    /\ CB_do(Call("set", idx, "", val), CB_set(CB_this, idx, val))
    /\ abs' = AbsSet(abs, idx, val)
    /\ alone' = None
    /\ fresh' = None
    /\ UNCHANGED hist

Get(idx) ==
    /\ CB_do(Call("get", idx, "", 0), CB_operator_index(CB_this, idx))
    /\ alone' = None
    /\ UNCHANGED <<abs, hist, fresh>>

Front(n) ==
    /\ CB_do(Call("front", n, "", 0), CB_front(CB_this, n))
    /\ alone' = None
    /\ UNCHANGED <<abs, hist, fresh>>

Back(n) ==
    /\ CB_do(Call("back", n, "", 0), CB_back(CB_this, n))
    /\ alone' = None
    /\ UNCHANGED <<abs, hist, fresh>>

\* pushBack on a buffer that has only been pushed to since construction
PushOnly(val) ==
    /\ Len(hist) < MaxPush
    /\ CB_do(Call("push_back", 0, "", val), CB_push_back(CB_this, val))
    /\ hist' = Append(hist, val)
    /\ UNCHANGED <<abs, alone, fresh>>

\* a call on the ordered map with one of the outcomes of the build
LH_do(c, outcomes) ==
    /\ Alive
    /\ \E r \in outcomes :
          /\ m_hash' = r.this.m_hash
          /\ m_list' = r.this.m_list
          /\ err' = r.err
          /\ ret' = r.ret
    /\ call' = c
    /\ old' = LH_this
    /\ UNCHANGED <<m_buffer, m_start, m_size, abs, hist, alone, fresh>>

\* a call that may change the order sequence ends the walk in progress
Mutation == it' = it /\ walk' = NoWalk

Lookup == UNCHANGED <<it, walk>>

Insert(idx, key, val) ==
    /\ LH_do(Call("insert", idx, key, val), LH_insert(LH_this, idx, key, val))
    /\ Mutation

AppendKey(key, val) ==
    /\ LH_do(Call("append", 0, key, val), LH_append(LH_this, key, val))
    /\ Mutation

Remove(key) ==
    /\ LH_do(Call("remove", 0, key, 0), LH_remove(LH_this, key))
    /\ Mutation

RemoveAt(idx) ==
    /\ LH_do(Call("removeAt", idx, "", 0), LH_removeAt(LH_this, idx))
    /\ Mutation

At(idx) ==
    /\ LH_do(Call("at", idx, "", 0), LH_operator_index(LH_this, idx))
    /\ Lookup

GetKey(key) ==
    /\ LH_do(Call("get", 0, key, 0), LH_operator_key(LH_this, key))
    /\ Lookup

IndexOf(key) ==
    /\ LH_do(Call("indexOf", 0, key, 0), LH_indexOf(LH_this, key))
    /\ Lookup

\* a call on the cursor that leaves the map alone
IT_do(c, r) ==
    /\ Alive
    /\ call' = c
    /\ err' = "none"
    /\ ret' = r
    /\ old' = LH_this
    /\ UNCHANGED <<m_buffer, m_start, m_size, m_hash, m_list,
                   abs, hist, alone, fresh>>

Begin ==
    /\ IT_do(Call("begin", 0, "", 0), <<>>)
    /\ it' = <<LH_begin("this", LH_this)>>
    /\ walk' = 0

\* ++it; the cursor is not advanced further than one past MaxPos
PreInc ==
    /\ it # <<>>
    /\ it[1].m_index < MaxPos
    /\ IT_do(Call("pre_inc", it[1].m_index, "", 0), <<>>)
    /\ it' = <<IT_pre_inc(it[1])>>
    /\ walk' = IF walk = NoWalk THEN NoWalk ELSE walk + 1

\* it++
PostInc ==
    /\ it # <<>>
    /\ it[1].m_index < MaxPos
    /\ IT_do(Call("post_inc", it[1].m_index, "", 0), <<IT_post_inc(it[1]).temp>>)
    /\ it' = <<IT_post_inc(it[1]).iter>>
    /\ walk' = IF walk = NoWalk THEN NoWalk ELSE walk + 1

\* *it
Deref ==
    /\ it # <<>>
    /\ LH_do(Call("deref", it[1].m_index, "", 0), IT_deref(LH_this, it[1]))
    /\ UNCHANGED <<it, walk>>

\* the state after construction of both containers
Init ==
    /\ \E capacity \in Caps :
          /\ m_buffer = CB_ctor(capacity).m_buffer
          /\ m_start = CB_ctor(capacity).m_start
          /\ m_size = CB_ctor(capacity).m_size
          /\ old = CB_ctor(capacity)
    /\ m_hash = LH_ctor.m_hash
    /\ m_list = LH_ctor.m_list
    /\ call = Call("ctor", 0, "", 0)
    /\ err = "none"
    /\ ret = <<>>
    /\ abs = <<>>
    /\ hist = <<>>
    /\ alone = None
    /\ fresh = None
    /\ it = <<>>
    /\ walk = NoWalk

Next ==
    \/ \E val \in Values : PushBack(val)
    \/ RemoveFront
    \/ Clear
    \/ \E idx \in Indices \cup {DefaultN}, val \in Values : Set(idx, val)
    \/ \E idx \in Indices \cup {DefaultN} : Get(idx)
    \/ \E n \in Indices \cup {DefaultN} : Front(n)
    \/ \E n \in Indices \cup {DefaultN} : Back(n)

Spec == Init /\ [][Next]_vars

NextPush == \E val \in Values : PushOnly(val)

SpecPush == Init /\ [][NextPush]_vars


\* the ordered map after construction, beside a default (capacity 0) buffer
InitMap ==
    /\ m_buffer = CB_ctor(0).m_buffer
    /\ m_start = CB_ctor(0).m_start
    /\ m_size = CB_ctor(0).m_size
    /\ m_hash = LH_ctor.m_hash
    /\ m_list = LH_ctor.m_list
    /\ old = LH_ctor
    /\ call = Call("ctor", 0, "", 0)
    /\ err = "none"
    /\ ret = <<>>
    /\ abs = <<>>
    /\ hist = <<>>
    /\ alone = None
    /\ fresh = None
    /\ it = <<>>
    /\ walk = NoWalk

NextMap ==
    \/ \E idx \in Positions, key \in Keys, val \in Values : Insert(idx, key, val)
    \/ \E key \in Keys, val \in Values : AppendKey(key, val)
    \/ \E key \in Keys : Remove(key)
    \/ \E idx \in Positions : RemoveAt(idx)
    \/ \E idx \in Positions : At(idx)
    \/ \E key \in Keys : GetKey(key)
    \/ \E key \in Keys : IndexOf(key)

SpecMap == InitMap /\ [][NextMap]_vars

\* the ordered map and a cursor on it.  append and the two removals reach
\* every order sequence and index that insert reaches, so insert at other
\* positions is left to SpecMap.
NextIter ==
    \/ \E key \in Keys, val \in Values : AppendKey(key, val)
    \/ \E key \in Keys : Remove(key)
    \/ \E idx \in Positions : RemoveAt(idx)
    \/ Begin
    \/ PreInc
    \/ PostInc
    \/ Deref

SpecIter == InitMap /\ [][NextIter]_vars

\* ------------------------------------------------- claims: QCircularBuffer
IsPrefix(p, a) == Len(p) <= Len(a) /\ p = SubSeq(a, 1, Len(p))

IsSuffix(p, a) == Len(p) <= Len(a) /\ p = LastOf(a, Len(p))

\* C1: after n >= c pushBack calls on a freshly constructed buffer of
\* capacity c, size() == c and get(0..c-1) are the last c pushed values in
\* push order.
C1_LastPushed ==
    Len(hist) >= Len(m_buffer) =>
        /\ CB_size(CB_this) = Len(m_buffer)
        /\ CB_contents(CB_this) = LastOf(hist, Len(m_buffer))

\* more pushes than the capacity, so that the oldest value was overwritten
C1_Witness ==
    /\ Len(m_buffer) >= 2
    /\ Len(hist) > Len(m_buffer)
    /\ call.op = "push_back"
    /\ hist[Len(hist)] # hist[Len(hist) - 1]

\* C4: front(k) followed by back(size() - k) is the whole logical sequence,
\* for every 0 <= k <= size().
C4_FrontBackSplit ==
    \A k \in 0 .. m_size :
        CB_front(CB_this, k).ret \o CB_back(CB_this, m_size - k).ret
            = CB_contents(CB_this)

\* C5: for a capacity >= 1, what get, front and back read is the abstract
\* bounded sequence: get(0..size()-1) is that sequence, and front and back
\* return a prefix and a suffix of it, never a slot outside the window.
C5_RefinesAbs ==
    Len(m_buffer) >= 1 =>
        /\ m_size = Len(abs)
        /\ CB_contents(CB_this) = abs
        /\ \A i \in Indices :
              i < m_size => CB_operator_index(CB_this, i).ret = <<abs[i + 1]>>
        /\ \A n \in Indices \cup {DefaultN} :
              /\ IsPrefix(CB_front(CB_this, n).ret, abs)
              /\ IsSuffix(CB_back(CB_this, n).ret, abs)
              /\ n >= 1 => Len(CB_front(CB_this, n).ret) = Min(n, Len(abs))
              /\ n >= 1 => Len(CB_back(CB_this, n).ret) = Min(n, Len(abs))

\* a set on a window that wraps around the end of the storage and leaves a
\* stale slot outside it
C5_Witness ==
    /\ call.op = "set"
    /\ err = "none"
    /\ m_start + m_size > Len(m_buffer)
    /\ m_size < Len(m_buffer)
    /\ \E i \in 1 .. Len(m_buffer) : m_buffer[i] # 0

\* C6: 0 <= count <= capacity; start < capacity when the capacity is
\* positive and start == 0 when it is 0.
C6_CountStartInRange ==
    /\ 0 <= m_size
    /\ m_size <= Len(m_buffer)
    /\ 0 <= m_start
    /\ Len(m_buffer) > 0 => m_start < Len(m_buffer)
    /\ Len(m_buffer) = 0 => m_start = 0

\* removeFront called on an empty buffer of positive capacity
C6_Witness ==
    /\ call.op = "remove_front"
    /\ CB_isEmpty(old)
    /\ Len(m_buffer) > 0
    /\ old.m_start > 0

\* C8: on a full buffer, removeFront followed immediately by pushBack(v)
\* gives the same size and the same get(i) as pushBack(v) alone.
C8_OverwriteEquivalence ==
    alone.set =>
        /\ CB_size(CB_this) = CB_size(alone.this)
        /\ CB_contents(CB_this) = CB_contents(alone.this)

\* the two calls were made on a full buffer of capacity >= 2
C8_Witness ==
    /\ alone.set
    /\ call.op = "push_back"
    /\ Len(m_buffer) >= 2
    /\ \E i \in 1 .. Len(m_buffer) : m_buffer[i] # call.val

\* C9: with capacity 0, size() is 0, isFull() and isEmpty() are true and
\* pushBack, removeFront and clear end without an error.
C9_ZeroCapacity ==
    Len(m_buffer) = 0 =>
        /\ CB_size(CB_this) = 0
        /\ CB_isFull(CB_this)
        /\ CB_isEmpty(CB_this)
        /\ call.op \in {"push_back", "remove_front", "clear"} => err = "none"

C9_Witness ==
    /\ Len(m_buffer) = 0
    /\ call.op = "push_back"
    /\ call.val # 0

\* C10: get(i) and set(i, v) with i >= size() end in an out-of-range error
\* and change nothing; with i < size() they signal no error.
C10_OutOfRange ==
    call.op \in {"get", "set"} =>
        IF call.idx >= CB_size(old)
        THEN err = "out_of_range" /\ CB_this = old
        ELSE err = "none"

\* an index past the window whose slot holds a value pushed earlier
C10_Witness ==
    /\ call.op \in {"get", "set"}
    /\ err = "out_of_range"
    /\ call.idx < Len(m_buffer)
    /\ m_buffer[((m_start + call.idx) % Len(m_buffer)) + 1] # 0


\* the number of elements front(n) and back(n) are to return: all of them
\* when n is omitted (size_t(-1)) or 0, min(n, size()) otherwise
C13_Count(n, size) == IF n = 0 \/ n = DefaultN THEN size ELSE Min(n, size)

C16_ClearResets ==
    /\ call.op = "clear" =>
          /\ err = "none"
          /\ m_size = 0
          /\ m_start = 0
          /\ m_buffer = old.m_buffer
          /\ CB_isEmpty(CB_this)
          /\ \A i \in Indices \cup {DefaultN} :
                CB_operator_index(CB_this, i).err = "out_of_range"
    /\ fresh.set =>
          /\ Len(m_buffer) = Len(fresh.this.m_buffer)
          /\ CB_size(CB_this) = CB_size(fresh.this)
          /\ CB_contents(CB_this) = CB_contents(fresh.this)

\* a push after a clear that left values in the storage, on a window that
\* has moved since the clear
C16_Witness ==
    /\ fresh.set
    /\ call.op = "push_back"
    /\ m_start > 0
    /\ m_size >= 1
    /\ m_buffer # fresh.this.m_buffer

\* ----------------------------------------------------- claims: QLinkedHash
\* the hypothesis of C3: insertAt(idx, k, v) returned, and k was already
\* there, at a position other than idx
C3_Moved ==
    /\ call.op = "insert"
    /\ err = "none"
    /\ QHash_contains(old.m_hash, call.key)
    /\ QList_indexOf(old.m_list, call.key) # call.idx

C3_Conclusion ==
    /\ LH_size(LH_this) = LH_size(old)
    /\ Ret(LH_operator_index(LH_this, call.idx)) = call.val
    /\ Ret(LH_indexOf(LH_this, call.key)) = call.idx

\* C2: while the process runs, the order sequence has no duplicate key and
\* its keys are exactly the keys of the index.
C2_Bijection ==
    Alive =>
        /\ \A i, j \in 1 .. Len(m_list) : m_list[i] = m_list[j] => i = j
        /\ {m_list[i] : i \in 1 .. Len(m_list)} = DOMAIN m_hash

\* an existing key was inserted again, among other keys
C2_Witness ==
    /\ call.op = "insert"
    /\ err = "none"
    /\ QHash_contains(old.m_hash, call.key)
    /\ Len(m_list) >= 2

\* C3 as stated: for every 0 <= idx <= size() and every key k already at
\* another position, after insertAt(idx, k, v): size() is unchanged,
\* at(idx) == v and indexOf(k) == idx.
C3_Original ==
    (C3_Moved /\ 0 <= call.idx /\ call.idx <= LH_size(old)) => C3_Conclusion

\* C3 as amended: the same for every 0 <= idx < size().
C3_MoveBelowSize ==
    (C3_Moved /\ 0 <= call.idx /\ call.idx < LH_size(old)) => C3_Conclusion

C3_Witness ==
    /\ C3_Moved
    /\ 0 <= call.idx
    /\ call.idx < LH_size(old)
    /\ QHash_value(old.m_hash, call.key) # call.val
    /\ LH_size(old) >= 3

\* C7: after append(k, v), for a new or an already present k, get(k)
\* returns v and indexOf(k) == size() - 1.
C7_AppendLast ==
    (call.op = "append" /\ err = "none") =>
        /\ Ret(LH_operator_key(LH_this, call.key)) = call.val
        /\ Ret(LH_indexOf(LH_this, call.key)) = LH_size(LH_this) - 1

\* an already present key, not the last one, appended with another value
C7_Witness ==
    /\ call.op = "append"
    /\ err = "none"
    /\ QHash_contains(old.m_hash, call.key)
    /\ QList_indexOf(old.m_list, call.key) < LH_size(old) - 1
    /\ QHash_value(old.m_hash, call.key) # call.val


\* a sequence without the key k
Without(seq, k) == SelectSeq(seq, LAMBDA x : x # k)

\* C11: at(idx) with idx outside [0, size()) and get(key) with an absent
\* key return the default value, signal no error and change neither the
\* order sequence nor the index.
C11_SoftFail ==
    (\/ call.op = "at" /\ (call.idx < 0 \/ call.idx >= LH_size(old))
     \/ call.op = "get" /\ ~ QHash_contains(old.m_hash, call.key)) =>
        /\ err = "none"
        /\ ret = <<0>>
        /\ LH_this = old

\* a lookup of an absent key in a map that holds other keys, with values
\* other than the default
C11_Witness ==
    /\ call.op = "get"
    /\ ~ QHash_contains(old.m_hash, call.key)
    /\ LH_size(old) >= 2
    /\ \A k \in DOMAIN m_hash : m_hash[k] # 0

\* C12: removeByKey with an absent key and removeAt with an index outside
\* [0, size()) return with size, order sequence and index as they were.
C12_RemoveNoOp ==
    (\/ call.op = "remove" /\ ~ QHash_contains(old.m_hash, call.key)
     \/ call.op = "removeAt" /\ (call.idx < 0 \/ call.idx >= LH_size(old))) =>
        /\ err = "none"
        /\ LH_size(LH_this) = LH_size(old)
        /\ LH_this = old

\* removeAt(size()) on a map of two keys or more
C12_Witness ==
    /\ call.op = "removeAt"
    /\ call.idx = LH_size(old)
    /\ LH_size(old) >= 2

\* the hypothesis of C14: insertAt(idx, key, value) returned, and idx was
\* in [0, size()]
C14_Inserted ==
    /\ call.op = "insert"
    /\ err = "none"
    /\ 0 <= call.idx
    /\ call.idx <= LH_size(old)

\* what C14 says of the index and of size(): key maps to value, every other
\* key keeps its value, size() grows by one for a new key only
C14_IndexAndSize ==
    /\ DOMAIN m_hash = (DOMAIN old.m_hash) \cup {call.key}
    /\ m_hash[call.key] = call.val
    /\ \A k \in (DOMAIN old.m_hash) \ {call.key} : m_hash[k] = old.m_hash[k]
    /\ LH_size(LH_this) = IF QHash_contains(old.m_hash, call.key)
                          THEN LH_size(old)
                          ELSE LH_size(old) + 1

\* C14 as stated: the order sequence is the previous one with key removed
\* and then key inserted at position idx.
C14_Original ==
    C14_Inserted =>
        /\ call.idx < Len(m_list)
        /\ m_list[call.idx + 1] = call.key
        /\ Without(m_list, call.key) = Without(old.m_list, call.key)
        /\ C14_IndexAndSize

\* C14 as amended: key is inserted at position idx, or at the end when the
\* key was present and idx == size() (position idx is then past the end of
\* the sequence without the key).
C14_InsertMoves ==
    C14_Inserted =>
        LET rest == Without(old.m_list, call.key)
            pos  == Min(call.idx, Len(rest))
        IN  /\ m_list = SubSeq(rest, 1, pos) \o <<call.key>>
                          \o SubSeq(rest, pos + 1, Len(rest))
            /\ C14_IndexAndSize

\* a present key moved to an earlier position, between two other keys, with
\* another value
C14_Witness ==
    /\ C14_Inserted
    /\ LH_size(old) = 3
    /\ call.idx = 1
    /\ QList_indexOf(old.m_list, call.key) = 2
    /\ old.m_hash[call.key] # call.val

\* C17: removeAt(idx) with idx in [0, size()) does what removeByKey(k) does
\* for the key k at idx: k leaves the index and the order sequence, size()
\* decreases by one, every other key keeps its value and relative order.
C17_RemoveAtAsRemove ==
    (call.op = "removeAt" /\ err = "none"
        /\ 0 <= call.idx /\ call.idx < LH_size(old)) =>
        LET k == old.m_list[call.idx + 1]
        IN  /\ LH_this \in {r.this : r \in LH_remove(old, k)}
            /\ ~ QHash_contains(m_hash, k)
            /\ m_list = Without(old.m_list, k)
            /\ LH_size(LH_this) = LH_size(old) - 1
            /\ \A j \in (DOMAIN old.m_hash) \ {k} :
                  QHash_contains(m_hash, j) /\ m_hash[j] = old.m_hash[j]

\* the middle key of three removed by position
C17_Witness ==
    /\ call.op = "removeAt"
    /\ err = "none"
    /\ call.idx = 1
    /\ LH_size(old) = 3

\* C18: insertAt(idx, key, value) with idx < 0 or idx > size() changes
\* neither the order sequence nor the index, also for a present key.
C18_InsertOutOfRange ==
    (call.op = "insert" /\ (call.idx < 0 \/ call.idx > LH_size(old))) =>
        /\ err = "none"
        /\ LH_this = old

\* a present key, not the last, inserted past the end with another value
C18_Witness ==
    /\ call.op = "insert"
    /\ call.idx > LH_size(old)
    /\ QHash_contains(old.m_hash, call.key)
    /\ QList_indexOf(old.m_list, call.key) < LH_size(old) - 1
    /\ old.m_hash[call.key] # call.val


\* the cursors compared in C15: of this container and of another one
Cursors == {IT_ctor(c, i) : c \in {"this", "other"}, i \in 0 .. MaxPos}

\* C15: while the map is not mutated, a cursor from begin() differs from
\* end() until it has been advanced size() times and equals end() exactly
\* then; dereferenced after k < size() advances it yields at(k); and two
\* cursors are equal iff they have the same container and position.
C15_Walk ==
    /\ walk # NoWalk =>
          /\ it # <<>>
          /\ it[1].m_index = walk
          /\ IT_eq(it[1], LH_end("this", LH_this)) <=> walk = LH_size(LH_this)
          /\ IT_ne(it[1], LH_end("this", LH_this)) <=> walk # LH_size(LH_this)
          /\ (call.op = "deref" /\ walk < LH_size(LH_this)) =>
                /\ err = "none"
                /\ ret = <<Ret(LH_operator_index(LH_this, walk))>>
    /\ \A a, b \in Cursors :
          IT_eq(a, b) <=> (a.m_container = b.m_container /\ a.m_index = b.m_index)

\* the last of three values read by a walk, and it is not the default
C15_Witness ==
    /\ walk = 2
    /\ LH_size(LH_this) = 3
    /\ call.op = "deref"
    /\ ret # <<0>>
    /\ m_hash[m_list[1]] = 0

\* C19: dereferencing a cursor whose position is in [0, size()) changes
\* neither the key set, nor the order sequence, nor size().
C19_DerefKeepsKeys ==
    (call.op = "deref" /\ 0 <= call.idx /\ call.idx < LH_size(old)) =>
        /\ err = "none"
        /\ DOMAIN m_hash = DOMAIN old.m_hash
        /\ m_list = old.m_list
        /\ LH_size(LH_this) = LH_size(old)

\* a cursor kept across a removal and dereferenced at the new last position
C19_Witness ==
    /\ call.op = "deref"
    /\ walk = NoWalk
    /\ call.idx = LH_size(old) - 1
    /\ LH_size(old) >= 2

====
